---- MODULE Spec2Model ----
(***************************************************************************)
(* State-machine model of api/src/main.py: module import and the startup  *)
(* loader that fills the process-wide resource cache, the two request     *)
(* validators defined in main.py, and the route handlers.                  *)
(*                                                                         *)
(* Python's None is the empty sequence; a loaded value v is <<v>>.         *)
(* A tensor shape is a sequence of dimension sizes.                        *)
(***************************************************************************)
EXTENDS Integers, Sequences, FiniteSets, TLC

VARIABLES env, phase, cache, loads, req, resp, readNone

\* the process-wide plotting state and the requests being handled by the
\* worker threads: calls (one record per request started), figs (the pyplot
\* figure stack, open figure numbers, the last one current), marks (for each
\* figure ever created, the requests that drew on it), file (the state of
\* model_architecture.png)
VARIABLES calls, figs, marks, file

plotvars == <<calls, figs, marks, file>>

vars == <<env, phase, cache, loads, req, resp, readNone, calls, figs, marks, file>>

(* ------------------------------ bounds -------------------------------- *)
\* largest number of samples in the vision dataset
MaxSamples == 2
\* request indices range over -MaxIndex .. MaxIndex
MaxIndex == 3
\* num_components ranges over 0 .. MaxComponents
MaxComponents == 3

(* --------------------------- configuration ---------------------------- *)
required_vars ==
  {"BANKING_MODEL_PATH", "BANKING_DATA_PATH", "VISION_MODEL_PATH", "VISION_DATA_PATH"}

\* what os.getenv / os.path.exists see for one setting
EnvStates == {"unset", "nofile", "file"}

None == <<>>
Some(v) == <<v>>

CacheFields ==
  {"banking_model", "processed_data", "X_train", "X_test", "y_train", "y_test",
   "model", "dataset"}

EmptyCache ==
  [banking_model |-> None, processed_data |-> None, X_train |-> None,
   X_test |-> None, y_train |-> None, y_test |-> None, model |-> None,
   dataset |-> None]

(* ------------------------- artifact contents -------------------------- *)
\* shapes a stored vision sample may have (rank 1 .. 5)
SampleShapes ==
  { <<28, 28>>, <<2, 3>>, <<3, 2, 2>>, <<1, 2, 2>>, <<1, 1, 2, 2>>,
    <<2, 1, 2, 2>>, <<7>>, <<4>>, <<1, 1, 1, 2, 2>> }

\* preprocess_dataset(VISION_DATA_PATH): an indexable collection of samples of
\* one shape, each a bare input or an (input, label, ...) tuple
VisionDatasets ==
  { [i \in 1..n |-> [tuple |-> FALSE, shape |-> s]] :
      n \in 0..MaxSamples, s \in SampleShapes }
  \cup
  { [i \in 1..n |-> [tuple |-> TRUE, shape |-> <<28, 28>>]] : n \in 1..MaxSamples }

\* number of rows of preprocess_data(pd.read_csv(BANKING_DATA_PATH))
BankingRowCounts == {5, 10}

\* train_test_split(X, y, test_size=0.2, ...): n_test = ceil(0.2 * n),
\* n_train = n - n_test (0.2 * n is exact for the row counts used here)
train_test_split(n) ==
  LET n_test == (2 * n + 9) \div 10
  IN  [train |-> n - n_test, test |-> n_test]

\* what the artifacts deserialize to: every vision dataset beside the smaller
\* table, and every table beside one vision dataset
ArtifactContents ==
  { [rows |-> 5, vision |-> d] : d \in VisionDatasets }
  \cup
  { [rows |-> n, vision |-> [i \in 1..1 |-> [tuple |-> FALSE, shape |-> <<28, 28>>]]] :
      n \in BankingRowCounts }

\* points of load_resources at which an external loader may raise
LoadFaults == {"none", "load_models", "train_test_split"}

(* ------------------------------ startup ------------------------------- *)
exists(e, v) == e[v] = "file"

\* load_resources_body with the vision paths checked only after the banking
\* model has been unpickled
load_resources_late_check(e, c, content, fault) ==
  IF ~exists(e, "BANKING_MODEL_PATH") \/ ~exists(e, "BANKING_DATA_PATH")
  THEN [ok |-> FALSE, cache |-> c]
  ELSE LET c1 == [c EXCEPT !.banking_model = Some(1)] IN
       IF ~exists(e, "VISION_MODEL_PATH") \/ ~exists(e, "VISION_DATA_PATH")
       THEN [ok |-> FALSE, cache |-> c1]
       ELSE IF fault = "load_models"
       THEN [ok |-> FALSE, cache |-> c1]
       ELSE LET c2 == [c1 EXCEPT !.model = Some(1),
                                 !.dataset = Some(content.vision),
                                 !.processed_data = Some(content.rows)] IN
            IF fault = "train_test_split"
            THEN [ok |-> FALSE, cache |-> c2]
            ELSE LET split == train_test_split(content.rows) IN
                 [ok |-> TRUE,
                  cache |-> [c2 EXCEPT !.X_train = Some(split.train),
                                       !.X_test = Some(split.test),
                                       !.y_train = Some(split.train),
                                       !.y_test = Some(split.test)]]

\* load_resources_body with `dataset` missing from the global statement, so
\* that the assignment binds a local name
load_resources_no_global(e, c, content, fault) ==
  IF ~exists(e, "BANKING_MODEL_PATH") \/ ~exists(e, "BANKING_DATA_PATH")
  THEN [ok |-> FALSE, cache |-> c]
  ELSE IF ~exists(e, "VISION_MODEL_PATH") \/ ~exists(e, "VISION_DATA_PATH")
  THEN [ok |-> FALSE, cache |-> c]
  ELSE LET c1 == [c EXCEPT !.banking_model = Some(1)] IN
       IF fault = "load_models"
       THEN [ok |-> FALSE, cache |-> c1]
       ELSE LET c2 == [c1 EXCEPT !.model = Some(1),
                                 !.processed_data = Some(content.rows)] IN
            IF fault = "train_test_split"
            THEN [ok |-> FALSE, cache |-> c2]
            ELSE LET split == train_test_split(content.rows) IN
                 [ok |-> TRUE,
                  cache |-> [c2 EXCEPT !.X_train = Some(split.train),
                                       !.X_test = Some(split.test),
                                       !.y_train = Some(split.train),
                                       !.y_test = Some(split.test)]]

\* body of load_resources: the cache it leaves behind and whether it returned
\* normally (ok) or raised
load_resources_body(e, c, content, fault) ==
  IF ~exists(e, "BANKING_MODEL_PATH") \/ ~exists(e, "BANKING_DATA_PATH")
  THEN [ok |-> FALSE, cache |-> c]
  ELSE IF ~exists(e, "VISION_MODEL_PATH") \/ ~exists(e, "VISION_DATA_PATH")
  THEN [ok |-> FALSE, cache |-> c]
  ELSE LET c1 == [c EXCEPT !.banking_model = Some(1)] IN
       IF fault = "load_models"
       THEN [ok |-> FALSE, cache |-> c1]
       ELSE LET c2 == [c1 EXCEPT !.model = Some(1),
                                 !.dataset = Some(content.vision),
                                 !.processed_data = Some(content.rows)] IN
            IF fault = "train_test_split"
            THEN [ok |-> FALSE, cache |-> c2]
            ELSE LET split == train_test_split(content.rows) IN
                 [ok |-> TRUE,
                  cache |-> [c2 EXCEPT !.X_train = Some(split.train),
                                       !.X_test = Some(split.test),
                                       !.y_train = Some(split.train),
                                       !.y_test = Some(split.test)]]

(* ------------------------- requests, responses ------------------------ *)
NoReq ==
  [endpoint |-> "", index |-> 0, data_point |-> None, plot_type |-> "",
   num_components |-> 0, isolation |-> FALSE]

\* status: HTTP status; by: who produced the response ("handler" for a return
\* or an HTTPException raised in the handler, "validator" for a request-model
\* validation error, "framework" for an exception that escaped the handler);
\* fetched: position of the dataset element read; called: the external
\* explainability routine was invoked; arg: what it was invoked with (an
\* index or a shape); canon: the 4-D shape computed before the call;
\* branch: the plot branch taken by shap_explanation; exc: the exception the
\* handler body raised, "none" when it returned
NoResp ==
  [status |-> 0, by |-> "", detail |-> "", exc |-> "none", fetched |-> None,
   called |-> FALSE,
   arg |-> <<>>, canon |-> <<>>, rendered |-> FALSE, branch |-> ""]

Indices == (-MaxIndex)..MaxIndex

PlotTypes == {"summary", "bar", "waterfall", "heatmap", "beeswarm"}

\* plot_type is declared str: any string is a well-typed value
PlotTypeInputs == PlotTypes \cup {"pie"}

\* exceptions an external routine or the plotting library may raise;
\* "Exception" stands for any class other than the three named ones
RaisedExcs == {"IndexError", "ValueError", "RuntimeError", "Exception"}

NoFault == [at |-> "none", exc |-> "none"]

Faults == {NoFault} \cup [at : {"routine", "render"}, exc : RaisedExcs]

\* progress of a handler body: exc = "none" while nothing was raised
Trace0 ==
  [exc |-> "none", fetched |-> None, called |-> FALSE, arg |-> <<>>,
   canon |-> <<>>, rendered |-> FALSE, branch |-> ""]

Raise(t, e) == [t EXCEPT !.exc = e]

\* invoke the external routine with a, then render its output
CallAndRender(t, a, fault) ==
  LET t1 == [t EXCEPT !.called = TRUE, !.arg = a] IN
  IF fault.at = "routine" THEN Raise(t1, fault.exc)
  ELSE IF fault.at = "render" THEN Raise(t1, fault.exc)
  ELSE [t1 EXCEPT !.rendered = TRUE]

Respond(t, status, by, detail) ==
  [status |-> status, by |-> by, detail |-> detail, exc |-> t.exc,
   fetched |-> t.fetched, called |-> t.called, arg |-> t.arg, canon |-> t.canon,
   rendered |-> t.rendered, branch |-> t.branch]

\* an exception no handler clause caught: the framework answers 500
Unmapped(t) == Respond(t, 500, "framework", "Internal Server Error")

\* a body validation error: the framework answers 422
Rejected == Respond(Trace0, 422, "validator", "validation error")

(* ------------------------------ tensors ------------------------------- *)
RECURSIVE Size(_)
Size(s) == IF s = <<>> THEN 1 ELSE Head(s) * Size(Tail(s))

\* int(n ** 0.5)
ISqrt(n) == CHOOSE h \in 0..n : h * h <= n /\ (h + 1) * (h + 1) > n

Min(a, b) == IF a < b THEN a ELSE b

\* dataset[i] on an indexable collection of n elements: the 1-based position
\* read, or None for IndexError
py_index(n, i) ==
  IF 0 <= i /\ i < n THEN Some(i + 1)
  ELSE IF -n <= i /\ i < 0 THEN Some(n + i + 1)
  ELSE None

\* sample_data = dataset[request.sample_index] and the tuple unpacking
fetch(c, i) ==
  IF c.dataset = None THEN Raise(Trace0, "Exception")
  ELSE LET ds == c.dataset[1]
           p == py_index(Len(ds), i) IN
       IF p = None THEN Raise(Trace0, "IndexError")
       ELSE [Trace0 EXCEPT !.fetched = p]

sample_shape(c, t) == c.dataset[1][t.fetched[1]].shape

\* ndim 2 -> [None, None, :, :], ndim 3 -> [None, :, :, :], ndim 4 -> as is
canonical4(s) ==
  IF Len(s) = 2 THEN Some(<<1, 1>> \o s)
  ELSE IF Len(s) = 3 THEN Some(<<1>> \o s)
  ELSE IF Len(s) = 4 THEN Some(s)
  ELSE None

(* ----------------------------- validators ----------------------------- *)
\* validate_row_index with > in place of >=
validate_row_index_off_by_one(c, row_index) ==
  IF row_index < 0 THEN FALSE
  ELSE IF c.X_test = None THEN FALSE
  ELSE ~(row_index > c.X_test[1])

\* LimeRequest.validate_row_index: TRUE when the values are returned
validate_row_index(c, row_index) ==
  IF row_index < 0 THEN FALSE
  ELSE IF c.X_test = None THEN FALSE
  ELSE ~(row_index >= c.X_test[1])

\* validate_request without the data_point is None check
validate_request_no_none_check(c, plot_type, data_point) ==
  IF plot_type = "waterfall" /\ data_point # None
  THEN IF data_point[1] < 0 THEN FALSE
       ELSE IF c.X_test = None THEN FALSE
       ELSE ~(data_point[1] >= c.X_test[1])
  ELSE TRUE

\* ShapRequest.validate_request: TRUE when the values are returned
validate_request(c, plot_type, data_point) ==
  IF plot_type = "waterfall"
  THEN IF data_point = None THEN FALSE
       ELSE IF data_point[1] < 0 THEN FALSE
       ELSE IF c.X_test = None THEN FALSE
       ELSE ~(data_point[1] >= c.X_test[1])
  ELSE TRUE

(* ------------------------------ handlers ------------------------------ *)
\* lime_explanation: no try block, so whatever is raised escapes
lime_explanation(c, r, fault) ==
  LET t == CallAndRender(Trace0, <<r.index>>, fault) IN
  IF t.exc = "none" THEN Respond(t, 200, "handler", "LimeResponse")
  ELSE Unmapped(t)

\* shap_explanation: shap_explainer runs first, then the plot branch
shap_explanation(c, r, fault) ==
  LET t1 == [Trace0 EXCEPT !.called = TRUE] IN
  IF fault.at = "routine" THEN Unmapped(Raise(t1, fault.exc))
  ELSE IF r.plot_type = "waterfall" /\ r.data_point = None
  THEN Respond([t1 EXCEPT !.branch = "waterfall"], 400, "handler",
               "Data point must be specified for waterfall plot.")
  ELSE LET t2 == [t1 EXCEPT
                    !.branch = IF r.plot_type \in PlotTypes THEN r.plot_type
                               ELSE "",
                    !.arg = IF r.plot_type = "waterfall" THEN r.data_point
                            ELSE <<>>] IN
       IF fault.at = "render" THEN Unmapped(Raise(t2, fault.exc))
       ELSE Respond([t2 EXCEPT !.rendered = TRUE], 200, "handler", "ShapResponse")

\* get_model_details: the two guards, then a try with except Exception
get_model_details(c, fault) ==
  IF c.model = None
  THEN Respond(Trace0, 500, "handler", "Model not loaded.")
  ELSE IF c.dataset = None \/ (c.dataset # None /\ Len(c.dataset[1]) = 0)
  THEN Respond(Trace0, 500, "handler", "Dataset not loaded or is empty.")
  ELSE LET t0 == fetch(c, 0)
           e  == c.dataset[1][1]
           t  == IF e.tuple THEN Raise(t0, "Exception")
                 ELSE CallAndRender(t0, e.shape, fault) IN
       IF t.exc = "none" THEN Respond(t, 200, "handler", "ModelDetailsResponse")
       ELSE Respond(t, 500, "handler", "Error accessing dataset")

\* get_sample_details: the sample is passed as fetched; except Exception
get_sample_details(c, r, fault) ==
  LET t0 == fetch(c, r.index)
      t  == IF t0.exc # "none" THEN t0
            ELSE CallAndRender(t0, sample_shape(c, t0), fault) IN
  IF t.exc = "none" THEN Respond(t, 200, "handler", "SampleDetailsResponse")
  ELSE Respond(t, 500, "handler", "Error processing sample details")

\* convolution_reshape assuming a square input without the size check
convolution_reshape_square(s) ==
  LET total_elements == Size(s)
      height == ISqrt(total_elements) IN
  IF height = 0 THEN [exc |-> "Exception", shape |-> <<>>]
  ELSE [exc |-> "none", shape |-> <<1, 1, height, height>>]

\* the reshape of get_convolution_features: (1, 1, height, width) with
\* height = int(size ** 0.5), width = int(size / height); the exception
\* raised otherwise
convolution_reshape(s) ==
  LET total_elements == Size(s)
      height == ISqrt(total_elements) IN
  IF height = 0 THEN [exc |-> "Exception", shape |-> <<>>]
  ELSE LET width == total_elements \div height IN
       IF height * width # total_elements
       THEN [exc |-> "ValueError", shape |-> <<>>]
       ELSE [exc |-> "none", shape |-> <<1, 1, height, width>>]

\* get_convolution_features: except IndexError -> 400, except Exception -> 500
get_convolution_features(c, r, fault) ==
  LET t0 == fetch(c, r.index)
      t  == IF t0.exc # "none" THEN t0
            ELSE LET rs == convolution_reshape(sample_shape(c, t0)) IN
                 IF rs.exc # "none" THEN Raise(t0, rs.exc)
                 ELSE CallAndRender([t0 EXCEPT !.canon = rs.shape],
                                    Tail(rs.shape), fault) IN
  IF t.exc = "none" THEN Respond(t, 200, "handler", "feature_maps")
  ELSE IF t.exc = "IndexError"
  THEN Respond(t, 400, "handler", "Invalid sample index provided.")
  ELSE Respond(t, 500, "handler", "Error processing convolution features")

\* except_clauses followed by a trailing `except Exception` that answers 500
except_clauses_catch_all(t, name, ok) ==
  IF t.exc = "none" THEN Respond(t, 200, "handler", ok)
  ELSE IF t.exc = "IndexError" THEN Respond(t, 400, "handler", "Invalid sample index.")
  ELSE IF t.exc = "ValueError" THEN Respond(t, 400, "handler", name)
  ELSE Respond(t, 500, "handler", name)

\* the except clauses shared by sample-components, integrated-gradients,
\* deep-lift and shap-single: IndexError -> 400, ValueError -> 400,
\* RuntimeError -> 500; an HTTPException and anything else pass through
except_clauses(t, name, ok) ==
  IF t.exc = "none" THEN Respond(t, 200, "handler", ok)
  ELSE IF t.exc = "IndexError" THEN Respond(t, 400, "handler", "Invalid sample index.")
  ELSE IF t.exc = "ValueError" THEN Respond(t, 400, "handler", name)
  ELSE IF t.exc = "RuntimeError" THEN Respond(t, 500, "handler", name)
  ELSE IF t.exc = "HTTPException"
  THEN Respond(t, 400, "handler", "Number of components must be at least 2.")
  ELSE Unmapped(t)

\* canonical4 followed by squeeze(0), which needs a batch dimension of 1
batch_then_unbatch(t0, s, fault) ==
  LET c4 == canonical4(s) IN
  IF c4 = None THEN Raise(t0, "ValueError")
  ELSE LET t1 == [t0 EXCEPT !.canon = c4[1]] IN
       IF c4[1][1] # 1 THEN Raise(t1, "ValueError")
       ELSE CallAndRender(t1, Tail(c4[1]), fault)

\* get_sample_components
get_sample_components(c, r, fault) ==
  LET t == IF r.num_components < 2 THEN Raise(Trace0, "HTTPException")
           ELSE LET t0 == fetch(c, r.index) IN
                IF t0.exc # "none" THEN t0
                ELSE batch_then_unbatch(t0, sample_shape(c, t0), fault) IN
  except_clauses(t, "Error processing sample components", "SampleComponentsResponse")

\* get_integrated_gradients
get_integrated_gradients(c, r, fault) ==
  LET t0 == fetch(c, r.index)
      t  == IF t0.exc # "none" THEN t0
            ELSE batch_then_unbatch(t0, sample_shape(c, t0), fault) IN
  except_clauses(t, "Error processing integrated gradients", "IntegratedGradientsResponse")

\* the reshape of get_deep_lift: one channel, no batch dimension
deep_lift_reshape(s) ==
  IF Len(s) = 2 THEN [exc |-> "none", shape |-> <<1>> \o s]
  ELSE IF Len(s) = 3
  THEN [exc |-> "none",
        shape |-> IF s[1] = 1 THEN s ELSE <<Min(1, s[1])>> \o Tail(s)]
  ELSE IF Len(s) = 4
  THEN IF s[1] = 0 THEN [exc |-> "IndexError", shape |-> <<>>]
       ELSE [exc |-> "none", shape |-> <<Min(1, s[2]), s[3], s[4]>>]
  ELSE [exc |-> "ValueError", shape |-> <<>>]

\* get_deep_lift
get_deep_lift(c, r, fault) ==
  LET t0 == fetch(c, r.index)
      t  == IF t0.exc # "none" THEN t0
            ELSE LET rs == deep_lift_reshape(sample_shape(c, t0)) IN
                 IF rs.exc # "none" THEN Raise(t0, rs.exc)
                 ELSE CallAndRender(t0, rs.shape, fault) IN
  except_clauses(t, "Error processing DeepLift", "DeepLiftResponse")

\* the reshape of get_shap_single_sample: [channels, height, width]
shap_single_reshape(s) ==
  IF Len(s) = 2 THEN [exc |-> "none", shape |-> <<1>> \o s]
  ELSE IF Len(s) = 3 THEN [exc |-> "none", shape |-> s]
  ELSE [exc |-> "ValueError", shape |-> <<>>]

\* get_shap_single_sample
get_shap_single_sample(c, r, fault) ==
  LET t0 == fetch(c, r.index)
      t  == IF t0.exc # "none" THEN t0
            ELSE LET rs == shap_single_reshape(sample_shape(c, t0)) IN
                 IF rs.exc # "none" THEN Raise(t0, rs.exc)
                 ELSE CallAndRender(t0, rs.shape, fault) IN
  except_clauses(t, "Error processing SHAP", "ShapSingleSampleResponse")

\* get_shap_overview: no request body and no try block
get_shap_overview(c, fault) ==
  LET t == CallAndRender(Trace0, <<>>, fault) IN
  IF t.exc = "none" THEN Respond(t, 200, "handler", "ShapOverviewResponse")
  ELSE Unmapped(t)

Init ==
  /\ env \in [required_vars -> EnvStates]
  /\ phase = "import"
  /\ cache = EmptyCache
  /\ loads = 0
  /\ req = NoReq
  /\ resp = NoResp
  /\ readNone = {}
  /\ calls = <<>>
  /\ figs = <<>>
  /\ marks = <<>>
  /\ file = "absent"

\* module level: the loop over required_vars raises ValueError when
\* os.getenv(var) is falsy
module_import ==
  /\ phase = "import"
  /\ phase' = IF \E v \in required_vars : env[v] = "unset" THEN "fatal" ELSE "startup"
  /\ UNCHANGED <<env, cache, loads, req, resp, readNone>>
  /\ UNCHANGED plotvars

\* the startup event: runs once, before the server accepts requests; an
\* exception aborts startup
load_resources ==
  /\ phase = "startup"
  /\ \E content \in ArtifactContents, fault \in LoadFaults :
       LET r == load_resources_body(env, cache, content, fault) IN
         /\ cache' = r.cache
         /\ phase' = IF r.ok THEN "serving" ELSE "fatal"
  /\ loads' = loads + 1
  /\ UNCHANGED <<env, req, resp, readNone>>
  /\ UNCHANGED plotvars

(* ------------------------------- routes ------------------------------- *)
Request(endpoint, index, data_point, plot_type, num_components, isolation) ==
  [endpoint |-> endpoint, index |-> index, data_point |-> data_point,
   plot_type |-> plot_type, num_components |-> num_components,
   isolation |-> isolation]

\* Serve with a handler that keeps the fetched sample in the dataset global:
\* the dataset is cut down to the sample the request fetched
Serve_rebinding_dataset(r, response, reads) ==
  /\ phase = "serving"
  /\ req' = r
  /\ resp' = response
  /\ readNone' = readNone \cup {f \in reads : cache[f] = None}
  /\ cache' = IF response.fetched = None THEN cache
              ELSE [cache EXCEPT !.dataset =
                      Some(<<cache.dataset[1][response.fetched[1]]>>)]
  /\ UNCHANGED <<env, phase, loads>>
  /\ UNCHANGED plotvars

\* one request served: the request, its response, and the cache fields the
\* validator and handler read while they were still None
Serve(r, response, reads) ==
  /\ phase = "serving"
  /\ req' = r
  /\ resp' = response
  /\ readNone' = readNone \cup {f \in reads : cache[f] = None}
  /\ UNCHANGED <<env, phase, cache, loads>>
  /\ UNCHANGED plotvars

GET_root ==
  Serve(Request("/", 0, None, "", 0, FALSE),
        Respond(Trace0, 200, "handler", "Welcome"), {})

POST_lime ==
  \E row_index \in Indices, fault \in Faults :
    LET r == Request("/lime/", row_index, None, "", 0, FALSE) IN
    IF validate_row_index(cache, row_index)
    THEN Serve(r, lime_explanation(cache, r, fault),
               {"X_test", "banking_model", "X_train"})
    ELSE /\ fault = NoFault
         /\ Serve(r, Rejected, {"X_test"})

POST_shap ==
  \E plot_type \in PlotTypeInputs, fault \in Faults :
  \E data_point \in IF plot_type = "waterfall"
                     THEN {None} \cup {Some(i) : i \in Indices}
                     ELSE {None, Some(0)} :
    LET r == Request("/shap/", 0, data_point, plot_type, 0, FALSE) IN
    IF validate_request(cache, plot_type, data_point)
    THEN Serve(r, shap_explanation(cache, r, fault), {"X_test", "banking_model"})
    ELSE /\ fault = NoFault
         /\ Serve(r, Rejected, {"X_test"})

GET_model_details ==
  \E fault \in Faults :
    Serve(Request("/model-details/", 0, None, "", 0, FALSE),
          get_model_details(cache, fault), {"model", "dataset"})

POST_sample_details ==
  \E sample_index \in Indices, fault \in Faults :
    LET r == Request("/sample-details/", sample_index, None, "", 0, FALSE) IN
    Serve(r, get_sample_details(cache, r, fault), {"model", "dataset"})

POST_convolution_features ==
  \E sample_index \in Indices, isolation \in BOOLEAN, fault \in Faults :
    LET r == Request("/convolution-features/", sample_index, None, "", 0, isolation) IN
    Serve(r, get_convolution_features(cache, r, fault), {"model", "dataset"})

POST_sample_components ==
  \E sample_index \in Indices, num_components \in 0..MaxComponents,
     fault \in Faults :
    LET r == Request("/sample-components/", sample_index, None, "",
                     num_components, FALSE) IN
    Serve(r, get_sample_components(cache, r, fault), {"model", "dataset"})

POST_integrated_gradients ==
  \E sample_index \in Indices, fault \in Faults :
    LET r == Request("/integrated-gradients/", sample_index, None, "", 0, FALSE) IN
    Serve(r, get_integrated_gradients(cache, r, fault), {"model", "dataset"})

POST_deep_lift ==
  \E sample_index \in Indices, fault \in Faults :
    LET r == Request("/deep-lift/", sample_index, None, "", 0, FALSE) IN
    Serve(r, get_deep_lift(cache, r, fault), {"model", "dataset"})

POST_shap_single ==
  \E sample_index \in Indices, fault \in Faults :
    LET r == Request("/shap-single/", sample_index, None, "", 0, FALSE) IN
    Serve(r, get_shap_single_sample(cache, r, fault), {"model", "dataset"})

POST_shap_overview ==
  \E fault \in Faults :
    Serve(Request("/shap-overview/", 0, None, "", 0, FALSE),
          get_shap_overview(cache, fault), {"model"})

Next ==
  \/ module_import
  \/ load_resources
  \/ GET_root
  \/ POST_lime
  \/ POST_shap
  \/ GET_model_details
  \/ POST_sample_details
  \/ POST_convolution_features
  \/ POST_sample_components
  \/ POST_integrated_gradients
  \/ POST_deep_lift
  \/ POST_shap_single
  \/ POST_shap_overview

Spec == Init /\ [][Next]_vars

(* ----------------------- concurrent request handling ------------------ *)
\* The handlers are plain `def` functions, which the framework runs on worker
\* threads; matplotlib.pyplot keeps one figure stack per process.  A handler
\* is followed through its plotting calls, one step per call; a loop over the
\* images of one request is followed through one iteration.

\* number of worker threads handling requests at the same time
Workers == 2
\* number of requests started in one run
MaxRequests == 2

PlotEndpoints ==
  {"/lime/", "/shap/", "/model-details/", "/sample-details/",
   "/convolution-features/", "/sample-components/", "/integrated-gradients/",
   "/deep-lift/", "/shap-single/", "/shap-overview/"}

\* the plotting calls of each handler, in program order
Program(e) ==
  CASE e = "/lime/" ->
         <<"own_figure", "savefig_own", "close_own", "return">>
    [] e = "/shap/" ->
         <<"clf", "figure", "draw", "savefig", "close", "return">>
    [] e = "/model-details/" ->
         <<"render_begin", "render_end", "read_file", "return">>
    [] e = "/sample-details/" ->
         <<"clf", "draw", "savefig", "close", "return">>
    [] e = "/convolution-features/" ->
         <<"own_figure", "savefig", "close_own", "return">>
    [] e \in {"/sample-components/", "/integrated-gradients/", "/deep-lift/"} ->
         <<"draw", "savefig", "close", "return">>
    [] e \in {"/shap-single/", "/shap-overview/"} ->
         <<"own_figure", "savefig_own", "close_own", "return">>

\* the service after a successful startup
PlotInit ==
  /\ env = [v \in required_vars |-> "file"]
  /\ phase = "serving"
  /\ cache = load_resources_body(env, EmptyCache,
               [rows |-> 5,
                vision |-> [i \in 1..1 |-> [tuple |-> FALSE, shape |-> <<28, 28>>]]],
               "none").cache
  /\ loads = 1
  /\ req = NoReq
  /\ resp = NoResp
  /\ readNone = {}
  /\ calls = <<>>
  /\ figs = <<>>
  /\ marks = <<>>
  /\ file = "absent"

InFlight == {k \in 1..Len(calls) : calls[k].status = "running"}

\* request k is running and its next plotting call is op
At(k, op) ==
  /\ k \in InFlight
  /\ Program(calls[k].endpoint)[calls[k].pc] = op

Advance(k) == [calls EXCEPT ![k].pc = @ + 1]

\* gcf(): the figure stack after a current figure has been made sure of
Gcf ==
  IF figs = <<>>
  THEN [figs |-> <<Len(marks) + 1>>, marks |-> Append(marks, {})]
  ELSE [figs |-> figs, marks |-> marks]

Current(g) == g.figs[Len(g.figs)]

Without(seq, x) == SelectSeq(seq, LAMBDA y : y # x)

\* a worker thread takes up a request
start_request ==
  /\ phase = "serving"
  /\ Len(calls) < MaxRequests
  /\ Cardinality(InFlight) < Workers
  /\ \E e \in PlotEndpoints :
       calls' = Append(calls, [endpoint |-> e, pc |-> 1, own |-> 0,
                               img |-> {}, status |-> "running"])
  /\ UNCHANGED <<figs, marks, file>>
  /\ UNCHANGED <<env, phase, cache, loads, req, resp, readNone>>

\* plt.clf(): clears the current figure, creating one when there is none
plt_clf ==
  \E k \in 1..Len(calls) :
    /\ At(k, "clf")
    /\ figs' = Gcf.figs
    /\ marks' = [Gcf.marks EXCEPT ![Current(Gcf)] = {}]
    /\ calls' = Advance(k)
    /\ UNCHANGED file
    /\ UNCHANGED <<env, phase, cache, loads, req, resp, readNone>>

\* plt.figure(figsize=...): a new figure, which becomes the current one
plt_figure ==
  \E k \in 1..Len(calls) :
    /\ At(k, "figure")
    /\ figs' = Append(figs, Len(marks) + 1)
    /\ marks' = Append(marks, {})
    /\ calls' = Advance(k)
    /\ UNCHANGED file
    /\ UNCHANGED <<env, phase, cache, loads, req, resp, readNone>>

\* fig = explanation.as_pyplot_figure(), fig, ax = plt.subplots() with
\* ax.imshow, or the figures returned by vision_shap / shap_overview: a new
\* figure holding this request's drawing, kept in a local variable
own_figure ==
  \E k \in 1..Len(calls) :
    /\ At(k, "own_figure")
    /\ figs' = Append(figs, Len(marks) + 1)
    /\ marks' = Append(marks, {k})
    /\ calls' = [Advance(k) EXCEPT ![k].own = Len(marks) + 1]
    /\ UNCHANGED file
    /\ UNCHANGED <<env, phase, cache, loads, req, resp, readNone>>

\* plt.imshow / shap.plots.*: draws on the current figure
plt_draw ==
  \E k \in 1..Len(calls) :
    /\ At(k, "draw")
    /\ figs' = Gcf.figs
    /\ marks' = [Gcf.marks EXCEPT ![Current(Gcf)] = @ \cup {k}]
    /\ calls' = Advance(k)
    /\ UNCHANGED file
    /\ UNCHANGED <<env, phase, cache, loads, req, resp, readNone>>

\* plt.savefig(buf): saves the current figure
plt_savefig ==
  \E k \in 1..Len(calls) :
    /\ At(k, "savefig")
    /\ figs' = Gcf.figs
    /\ marks' = Gcf.marks
    /\ calls' = [Advance(k) EXCEPT ![k].img = Gcf.marks[Current(Gcf)]]
    /\ UNCHANGED file
    /\ UNCHANGED <<env, phase, cache, loads, req, resp, readNone>>

\* fig.savefig(buf): saves the figure held in the local variable
fig_savefig ==
  \E k \in 1..Len(calls) :
    /\ At(k, "savefig_own")
    /\ calls' = [Advance(k) EXCEPT ![k].img = marks[calls[k].own]]
    /\ UNCHANGED <<figs, marks, file>>
    /\ UNCHANGED <<env, phase, cache, loads, req, resp, readNone>>

\* plt.close(): closes the current figure, if there is one
plt_close ==
  \E k \in 1..Len(calls) :
    /\ At(k, "close")
    /\ figs' = IF figs = <<>> THEN figs ELSE SubSeq(figs, 1, Len(figs) - 1)
    /\ calls' = Advance(k)
    /\ UNCHANGED <<marks, file>>
    /\ UNCHANGED <<env, phase, cache, loads, req, resp, readNone>>

\* plt.close(fig): closes the figure held in the local variable
plt_close_fig ==
  \E k \in 1..Len(calls) :
    /\ At(k, "close_own")
    /\ figs' = Without(figs, calls[k].own)
    /\ calls' = Advance(k)
    /\ UNCHANGED <<marks, file>>
    /\ UNCHANGED <<env, phase, cache, loads, req, resp, readNone>>

\* dot.render("model_architecture.png"): the file is truncated and rewritten
render_begin ==
  \E k \in 1..Len(calls) :
    /\ At(k, "render_begin")
    /\ file' = "partial"
    /\ calls' = Advance(k)
    /\ UNCHANGED <<figs, marks>>
    /\ UNCHANGED <<env, phase, cache, loads, req, resp, readNone>>

\* dot.render returns: the bytes last written are all there
render_end ==
  \E k \in 1..Len(calls) :
    /\ At(k, "render_end")
    /\ file' = "complete"
    /\ calls' = Advance(k)
    /\ UNCHANGED <<figs, marks>>
    /\ UNCHANGED <<env, phase, cache, loads, req, resp, readNone>>

\* open(dot_path, "rb").read(): a complete file holds the diagram of the one
\* cached model whoever wrote it; 0 marks bytes cut short by a writer
read_file ==
  \E k \in 1..Len(calls) :
    /\ At(k, "read_file")
    /\ calls' = [Advance(k) EXCEPT ![k].img = IF file = "complete" THEN {k} ELSE {0}]
    /\ UNCHANGED <<figs, marks, file>>
    /\ UNCHANGED <<env, phase, cache, loads, req, resp, readNone>>

\* the handler returns its response; its local variables are gone
handler_return ==
  \E k \in 1..Len(calls) :
    /\ At(k, "return")
    /\ calls' = [calls EXCEPT ![k].status = "done", ![k].pc = 0, ![k].own = 0]
    /\ UNCHANGED <<figs, marks, file>>
    /\ UNCHANGED <<env, phase, cache, loads, req, resp, readNone>>

\* the call the handler is about to make raises: the handler is left at once
\* (no handler has a finally clause or closes a figure in an except clause),
\* its local variables are gone and no image is returned
handler_raise ==
  \E k \in 1..Len(calls) :
    /\ k \in InFlight
    /\ Program(calls[k].endpoint)[calls[k].pc] # "return"
    /\ calls' = [calls EXCEPT ![k].status = "failed", ![k].pc = 0, ![k].own = 0,
                               ![k].img = {}]
    /\ UNCHANGED <<figs, marks, file>>
    /\ UNCHANGED <<env, phase, cache, loads, req, resp, readNone>>

PlotNext ==
  \/ start_request
  \/ plt_clf
  \/ plt_figure
  \/ own_figure
  \/ plt_draw
  \/ plt_savefig
  \/ fig_savefig
  \/ plt_close
  \/ plt_close_fig
  \/ render_begin
  \/ render_end
  \/ read_file
  \/ handler_return
  \/ handler_raise

PlotSpec == PlotInit /\ [][PlotNext]_vars

(* ------------------------------ properties ---------------------------- *)
BadConfig == \E v \in required_vars : env[v] # "file"

Populated == \A f \in CacheFields : cache[f] # None

\* len(X_test) and len(dataset) of the populated cache
XTestLen == cache.X_test[1]

DatasetLen == Len(cache.dataset[1])

\* C1: when one of the four path settings is unset or names no existing path,
\* startup never gets past the fatal error: the service is never serving, no
\* request is answered, the loader has ended in the fatal state once it has
\* run, and no field of the cache is populated.
C1_BadPathIsFatal ==
  BadConfig =>
    /\ phase \in {"import", "startup", "fatal"}
    /\ (phase = "startup" => \A v \in required_vars : env[v] # "unset")
    /\ (loads >= 1 => phase = "fatal")
    /\ resp = NoResp
    /\ cache = EmptyCache

C1_Witness ==
  /\ \A v \in required_vars : env[v] # "unset"
  /\ env["VISION_DATA_PATH"] = "nofile"
  /\ env["BANKING_MODEL_PATH"] = "file"
  /\ env["BANKING_DATA_PATH"] = "file"
  /\ phase = "fatal"
  /\ loads = 1

\* C2: load_resources runs exactly once and has completed before any request
\* is validated or handled: no validator or handler reads a cache field that
\* is still None.
C2_LoadedBeforeServing ==
  /\ loads <= 1
  /\ readNone = {}
  /\ (phase = "serving" => loads = 1 /\ Populated)
  /\ (resp # NoResp => phase = "serving")

C2_Witness ==
  /\ req.endpoint = "/model-details/"
  /\ resp.status = 200
  /\ loads = 1

\* C3: a LimeRequest is accepted iff 0 <= row_index < len(X_test); a rejected
\* one never reaches lime_explainer, which is only invoked with an in-range
\* row_index.
C3_LimeRowIndexInRange ==
  req.endpoint = "/lime/" =>
    LET inRange == 0 <= req.index /\ req.index < XTestLen IN
      /\ (resp.by # "validator") <=> inRange
      /\ (~inRange => resp = Rejected)
      /\ (resp.called => inRange /\ resp.arg = <<req.index>>)

C3_Witness ==
  /\ req.endpoint = "/lime/"
  /\ req.index = XTestLen
  /\ resp = Rejected

\* C4: a waterfall ShapRequest is rejected when data_point is null or outside
\* [0, len(X_test)); the waterfall branch of shap_explanation is reached only
\* with a non-null in-range data_point, and its own None check never fires.
C4_WaterfallNeedsDataPoint ==
  (req.endpoint = "/shap/" /\ req.plot_type = "waterfall") =>
    LET inRange == /\ req.data_point # None
                   /\ 0 <= req.data_point[1]
                   /\ req.data_point[1] < XTestLen IN
      /\ (~inRange => resp = Rejected)
      /\ (resp.branch = "waterfall" => inRange /\ resp.arg = req.data_point)
      /\ resp.detail # "Data point must be specified for waterfall plot."

C4_Witness ==
  /\ req.endpoint = "/shap/"
  /\ req.plot_type = "waterfall"
  /\ req.data_point = None
  /\ resp = Rejected

\* C5: a SHAP request whose plot_type is outside the enumeration fails
\* validation, surfaces as a client error and never reaches shap_explainer.
C5_PlotTypeEnumerated ==
  (req.endpoint = "/shap/" /\ req.plot_type \notin PlotTypes) =>
    /\ resp.by = "validator"
    /\ resp.status \in 400..499
    /\ ~resp.called

\* C6: a SampleComponentsRequest with num_components < 2 is answered with a
\* client error for every sample_index, before the sample is fetched and
\* before find_components is invoked, and the except clauses do not turn the
\* error into a server error.
C6_TooFewComponentsIsClientError ==
  (req.endpoint = "/sample-components/" /\ req.num_components < 2) =>
    /\ resp.status \in 400..499
    /\ resp.by # "framework"
    /\ resp.fetched = None
    /\ ~resp.called

C6_Witness ==
  /\ req.endpoint = "/sample-components/"
  /\ req.num_components = 1
  /\ req.index = 0
  /\ DatasetLen > 0
  /\ resp.status = 400
  /\ resp.detail = "Number of components must be at least 2."

SampleIndexEndpoints ==
  {"/sample-details/", "/convolution-features/", "/sample-components/",
   "/integrated-gradients/", "/deep-lift/", "/shap-single/"}

\* C7: on every vision endpoint that takes a sample_index, an index outside
\* [0, len(dataset)) yields a client error, never a server error and never a
\* response computed on another sample.
C7_BadSampleIndexIsClientError ==
  (/\ req.endpoint \in SampleIndexEndpoints
   /\ (req.index < 0 \/ req.index >= DatasetLen)) =>
    /\ resp.status \in 400..499
    /\ resp.fetched = None

\* shape of the sample the last request fetched
FetchedShape == cache.dataset[1][resp.fetched[1]].shape

\* the rule of the claim: (H, W) -> (1, 1, H, W), (C, H, W) -> (1, C, H, W),
\* a 4-D shape unchanged
RankRule(s) ==
  CASE Len(s) = 2 -> <<1, 1, s[1], s[2]>>
    [] Len(s) = 3 -> <<1, s[1], s[2], s[3]>>
    [] Len(s) = 4 -> s

CanonicalizingEndpoints ==
  {"/convolution-features/", "/sample-components/", "/integrated-gradients/",
   "/deep-lift/", "/shap-single/"}

C9_ComputationFailureIsServerError ==
  (/\ resp.by # "validator"
   /\ resp.exc # "none"
   /\ (resp.called \/ (resp.fetched # None /\ resp.exc = "ValueError"))) =>
    /\ resp.status \in 500..599
    /\ resp.by = "handler"

\* C10: once load_resources has completed, no request - accepted, rejected or
\* failed - changes any cached value.
C10_CacheWriteOnce ==
  [][phase = "serving" => cache' = cache /\ phase' = "serving" /\ loads' = loads]_vars

C10_Witness ==
  /\ phase = "serving"
  /\ Populated
  /\ req.endpoint = "/deep-lift/"
  /\ resp.status = 500
  /\ resp.called

\* C11: whatever the interleaving of the requests being handled, the image a
\* request returns holds that request's own rendering and nothing else - no
\* drawing of another request and no bytes of model_architecture.png cut short
\* by another request's write - as it would if the request ran alone.
C11_ResponsesIndependent ==
  \A k \in 1..Len(calls) : calls[k].status = "done" => calls[k].img = {k}

\* C12: every figure a handler creates is closed before the handler returns or
\* raises: once no request is being handled, no figure is left open.
C12_FiguresReleased ==
  (calls # <<>> /\ InFlight = {}) => figs = <<>>
====
